---- MODULE Spec2Model ----
(***************************************************************************)
(* MemoryDataStore (electos/vanadium/app/database/memory.py): an in-memory *)
(* key/value store backed by one Python dict, by_id.                        *)
(*                                                                         *)
(* Python objects are tagged tuples, so that None, a str and a dict are     *)
(* three different objects and None is the same object wherever it shows    *)
(* up: as a key argument, as a stored value and as a returned result.       *)
(* A dict is the sequence of its <<key, value>> items in insertion order,   *)
(* which is the order list(d.values()) walks.                               *)
(***************************************************************************)
EXTENDS Integers, Sequences, FiniteSets, TLC

VARIABLES
    by_id,      \* self.by_id
    by_type,    \* self.by_type (declared, never populated)
    now,        \* the clock UniqueIds.timestamp_id() reads
    op,         \* the last call: name of the method
    key,        \* the last call: its key argument
    value,      \* the last call: its value argument
    ret,        \* the last call: what it returned
    pre,        \* self.by_id when the last call began
    held,       \* the collection a caller got from keys() or values() and kept
    issued,     \* the identifiers UniqueIds.timestamp_id() returned, in order
    threads     \* the two callers of the concurrent runs, inside insert

vars == <<by_id, by_type, now, op, key, value, ret, pre, held, issued, threads>>

(***************************************************************************)
(* Bounds                                                                  *)
(***************************************************************************)
\* The clock takes the values 0..MaxClock.
MaxClock == 1
\* Calls that would grow by_id beyond MaxEntries items are not made.
MaxEntries == 2
\* Calls that would make UniqueIds.timestamp_id() return more than MaxIssued
\* identifiers are not made (where the identifiers are recorded).
MaxIssued == 2

(***************************************************************************)
(* Python objects                                                          *)
(***************************************************************************)
None == <<"NoneType">>
Str(s) == <<"str", s>>
Dict(x) == <<"dict", [x |-> x]>>

\* UniqueIds.timestamp_id(): a string derived from the current time.  The
\* same reading of the clock gives the same identifier.
timestamp_id(t) == Str("ts-" \o ToString(t))

GeneratedIds == {timestamp_id(t) : t \in 0..MaxClock}

\* Keys a caller can pass: names of its own, and any identifier the store
\* handed out (or will hand out: to the store both are just strings).
CallerKeys == {Str("a")} \cup GeneratedIds

\* The key argument of a call: a key or None.
KeyArgs == CallerKeys \cup {None}

\* "Values are Python dictionaries or strings"; nothing checks it, so None
\* can be passed as well.
Values == {None, Str("text"), Dict(1)}

(***************************************************************************)
(* The dict operations the store uses                                      *)
(***************************************************************************)
\* key in d
DictContains(d, k) == \E i \in 1..Len(d) : d[i][1] = k

DictIndex(d, k) == CHOOSE i \in 1..Len(d) : d[i][1] = k

\* d.get(k, default)
DictGet(d, k, default) ==
    IF DictContains(d, k) THEN d[DictIndex(d, k)][2] ELSE default

\* d[k] = v: an existing key keeps its place, a new key goes last
DictSet(d, k, v) ==
    IF DictContains(d, k)
    THEN [d EXCEPT ![DictIndex(d, k)] = <<k, v>>]
    ELSE Append(d, <<k, v>>)

\* d.pop(k, default): the dict afterwards and the value popped
DictPop(d, k, default) ==
    IF DictContains(d, k)
    THEN LET i == DictIndex(d, k)
         IN  [dict  |-> SubSeq(d, 1, i - 1) \o SubSeq(d, i + 1, Len(d)),
              value |-> d[i][2]]
    ELSE [dict |-> d, value |-> default]

\* d.keys() and d.values(): the views, in insertion order
DictKeys(d) == [i \in 1..Len(d) |-> d[i][1]]
DictValues(d) == [i \in 1..Len(d) |-> d[i][2]]

\* set(iterable) and list(iterable)
SetOf(s) == {s[i] : i \in 1..Len(s)}
ListOf(s) == s

(***************************************************************************)
(* The methods, as functions of self.by_id and the arguments.  Each gives   *)
(* the by_id it leaves and the object it returns.  id is what               *)
(* UniqueIds.timestamp_id() returns if the method calls it.                 *)
(***************************************************************************)
\* lookup with the wrong default: self.by_id.get(key, key)
lookup_DefaultKey(d, k) == DictGet(d, k, k)

lookup(d, k) == DictGet(d, k, None)

\* insert without line 52: the key is returned, nothing is stored
insert_NoWrite(d, k, v, id) ==
    LET key1 == IF k = None THEN id ELSE k
    IN  IF DictContains(d, key1)
        THEN [by_id |-> d, ret |-> None]
        ELSE [by_id |-> d, ret |-> key1]

\* insert without lines 50-51: an existing key is written over
insert_Overwrite(d, k, v, id) ==
    LET key1 == IF k = None THEN id ELSE k
    IN  [by_id |-> DictSet(d, key1, v), ret |-> key1]

insert(d, k, v, id) ==
    LET key1 == IF k = None THEN id ELSE k
    IN  IF DictContains(d, key1)
        THEN [by_id |-> d, ret |-> None]
        ELSE [by_id |-> DictSet(d, key1, v), ret |-> key1]

\* update without line 67: the value is returned, nothing is stored
update_NoWrite(d, k, v) ==
    IF k = None
    THEN [by_id |-> d, ret |-> None]
    ELSE IF DictContains(d, k)
         THEN [by_id |-> d, ret |-> v]
         ELSE [by_id |-> d, ret |-> None]

\* update without the test of line 66: an absent key is created
update_Creates(d, k, v) ==
    IF k = None
    THEN [by_id |-> d, ret |-> None]
    ELSE [by_id |-> DictSet(d, k, v), ret |-> v]

\* update with the test of line 64 folded into line 66 the wrong way round:
\* "if key is None or key in self.by_id"
update_NoneKey(d, k, v) ==
    IF k = None \/ DictContains(d, k)
    THEN [by_id |-> DictSet(d, k, v), ret |-> v]
    ELSE [by_id |-> d, ret |-> None]

update(d, k, v) ==
    IF k = None
    THEN [by_id |-> d, ret |-> None]
    ELSE IF DictContains(d, k)
         THEN [by_id |-> DictSet(d, k, v), ret |-> v]
         ELSE [by_id |-> d, ret |-> None]

\* upsert with insert's lines 50-51 copied in: an existing key is a conflict
upsert_AsInsert(d, k, v, id) ==
    LET key1 == IF k = None THEN id ELSE k
    IN  IF DictContains(d, key1)
        THEN [by_id |-> d, ret |-> None]
        ELSE [by_id |-> DictSet(d, key1, v), ret |-> key1]

\* upsert that rebinds the mapping instead of writing into it:
\* self.by_id = {key: value}
upsert_Replace(d, k, v, id) ==
    LET key1 == IF k = None THEN id ELSE k
    IN  [by_id |-> <<<<key1, v>>>>, ret |-> key1]

upsert(d, k, v, id) ==
    LET key1 == IF k = None THEN id ELSE k
    IN  [by_id |-> DictSet(d, key1, v), ret |-> key1]

\* remove with get in place of pop: the value is returned, the item stays
remove_Get(d, k) ==
    [by_id |-> d, ret |-> DictGet(d, k, None)]

\* remove with the wrong default: self.by_id.pop(key, key)
remove_DefaultKey(d, k) ==
    LET popped == DictPop(d, k, k)
    IN  [by_id |-> popped.dict, ret |-> popped.value]

remove(d, k) ==
    LET popped == DictPop(d, k, None)
    IN  [by_id |-> popped.dict, ret |-> popped.value]

keys(d) == SetOf(DictKeys(d))

values(d) == ListOf(DictValues(d))

(***************************************************************************)
(* The objects keys() and values() hand to the caller.  live says whether   *)
(* the object reads self.by_id each time it is looked at (a dict view) or   *)
(* holds items of its own (what set(...) and list(...) build); items are    *)
(* the contents at the moment the call returned.                            *)
(***************************************************************************)
NoObject == [kind |-> "none", live |-> FALSE, items |-> <<>>]

\* keys() returning the view itself: return self.by_id.keys()
KeysReturned_View(d) == [kind |-> "keys", live |-> TRUE, items |-> keys(d)]

\* set(self.by_id.keys()): a new set
KeysReturned(d) == [kind |-> "keys", live |-> FALSE, items |-> keys(d)]

\* list(self.by_id.values()): a new list
ValuesReturned(d) == [kind |-> "values", live |-> FALSE, items |-> values(d)]

\* What a caller finds in object h when self.by_id is d.
Contents(h, d) ==
    IF h.live
    THEN IF h.kind = "keys" THEN SetOf(DictKeys(d)) ELSE ListOf(DictValues(d))
    ELSE h.items

(***************************************************************************)
(* insert, statement by statement, for callers that run it concurrently:    *)
(* nothing in the method holds a lock, so another caller's statements can   *)
(* run between any two of these.                                            *)
(***************************************************************************)
Threads == {1, 2}

Idle == [pc |-> "idle", key |-> None, value |-> None, ret |-> None]

\* lines 48-49: the key the method goes on with
insert_key(k, id) == IF k = None THEN id ELSE k

\* line 50: key in self.by_id
insert_check(d, k) == DictContains(d, k)

\* lines 52-54 without the store: the key is returned, nothing is written
insert_write_NoStore(d, k, v) == [by_id |-> d, ret |-> k]

\* lines 52-54: self.by_id[key] = value; return key
insert_write(d, k, v) == [by_id |-> DictSet(d, k, v), ret |-> k]

(***************************************************************************)
(* The state machine: one action per call                                  *)
(***************************************************************************)
Init ==
    /\ by_id = <<>>
    /\ by_type = <<>>
    /\ now = 0
    /\ op = "init"
    /\ key = None
    /\ value = None
    /\ ret = None
    /\ pre = <<>>
    /\ held = NoObject
    /\ issued = <<>>
    /\ threads = [t \in Threads |-> Idle]

\* What every call records about itself.
Called(name, k, v, r) ==
    /\ op' = name
    /\ key' = k
    /\ value' = v
    /\ ret' = r
    /\ pre' = by_id
    /\ UNCHANGED <<by_type, now, held, issued, threads>>

Lookup ==
    \E k \in KeyArgs :
        /\ by_id' = by_id
        /\ Called("lookup", k, None, lookup(by_id, k))

Insert ==
    \E k \in KeyArgs, v \in Values :
        LET r == insert(by_id, k, v, timestamp_id(now))
        IN  /\ Len(r.by_id) <= MaxEntries
            /\ by_id' = r.by_id
            /\ Called("insert", k, v, r.ret)

Update ==
    \E k \in KeyArgs, v \in Values :
        LET r == update(by_id, k, v)
        IN  /\ by_id' = r.by_id
            /\ Called("update", k, v, r.ret)

Upsert ==
    \E k \in KeyArgs, v \in Values :
        LET r == upsert(by_id, k, v, timestamp_id(now))
        IN  /\ Len(r.by_id) <= MaxEntries
            /\ by_id' = r.by_id
            /\ Called("upsert", k, v, r.ret)

Remove ==
    \E k \in KeyArgs :
        LET r == remove(by_id, k)
        IN  /\ by_id' = r.by_id
            /\ Called("remove", k, None, r.ret)

Keys ==
    /\ by_id' = by_id
    /\ Called("keys", None, None, keys(by_id))

ValuesCall ==
    /\ by_id' = by_id
    /\ Called("values", None, None, values(by_id))

\* Time passes between calls.
Tick ==
    /\ now < MaxClock
    /\ now' = now + 1
    /\ UNCHANGED <<by_id, by_type, op, key, value, ret, pre, held, issued, threads>>

Next ==
    \/ Lookup
    \/ Insert
    \/ Update
    \/ Upsert
    \/ Remove
    \/ Keys
    \/ ValuesCall
    \/ Tick

Spec == Init /\ [][Next]_vars

(***************************************************************************)
(* The same calls without the record of the last call, for what a caller    *)
(* keeps over many calls: the identifiers it was given (issued) and a       *)
(* collection it got from keys() or values() (held).                        *)
(***************************************************************************)
\* A write that leaves r.by_id and made timestamp_id() return ids.
Wrote(r, ids) ==
    /\ Len(r.by_id) <= MaxEntries
    /\ Len(issued \o ids) <= MaxIssued
    /\ by_id' = r.by_id
    /\ issued' = issued \o ids
    /\ UNCHANGED <<by_type, now, op, key, value, ret, pre, held, threads>>

\* The identifiers a call with key argument k draws (lines 48-49, 79-80).
Drawn(k) == IF k = None THEN <<timestamp_id(now)>> ELSE <<>>

InsertStep ==
    \E k \in KeyArgs, v \in Values :
        Wrote(insert(by_id, k, v, timestamp_id(now)), Drawn(k))

UpdateStep ==
    \E k \in KeyArgs, v \in Values :
        Wrote(update(by_id, k, v), <<>>)

UpsertStep ==
    \E k \in KeyArgs, v \in Values :
        Wrote(upsert(by_id, k, v, timestamp_id(now)), Drawn(k))

RemoveStep ==
    \E k \in KeyArgs :
        Wrote(remove(by_id, k), <<>>)

\* The caller calls keys() and keeps what it returns.
HoldKeys ==
    /\ held' = KeysReturned(by_id)
    /\ UNCHANGED <<by_id, by_type, now, op, key, value, ret, pre, issued, threads>>

\* The caller calls values() and keeps what it returns.
HoldValues ==
    /\ held' = ValuesReturned(by_id)
    /\ UNCHANGED <<by_id, by_type, now, op, key, value, ret, pre, issued, threads>>

\* A caller that holds a collection while the store is written to.
SnapNext ==
    \/ HoldKeys
    \/ HoldValues
    \/ InsertStep
    \/ UpdateStep
    \/ UpsertStep
    \/ RemoveStep

SnapSpec == Init /\ [][SnapNext]_vars

\* Callers that draw identifiers as time passes.
IdNext ==
    \/ InsertStep
    \/ UpdateStep
    \/ UpsertStep
    \/ RemoveStep
    \/ Tick

IdSpec == Init /\ [][IdNext]_vars

(***************************************************************************)
(* Two callers inside insert at the same time, on a store that starts       *)
(* empty.  Each makes one call.                                             *)
(***************************************************************************)
ThreadStep(t, th, d) ==
    /\ threads' = [threads EXCEPT ![t] = th]
    /\ by_id' = d
    /\ UNCHANGED <<by_type, now, op, key, value, ret, pre, held, issued>>

\* insert(k, v) is entered
ConcCall(t) ==
    /\ threads[t].pc = "idle"
    /\ \E k \in KeyArgs, v \in Values :
          ThreadStep(t, [pc |-> "line48", key |-> k, value |-> v, ret |-> None],
                     by_id)

\* lines 48-49
ConcKey(t) ==
    /\ threads[t].pc = "line48"
    /\ ThreadStep(t, [threads[t] EXCEPT
                        !.pc = "line50",
                        !.key = insert_key(threads[t].key, timestamp_id(now))],
                  by_id)

\* lines 50-51
ConcCheck(t) ==
    /\ threads[t].pc = "line50"
    /\ IF insert_check(by_id, threads[t].key)
       THEN ThreadStep(t, [threads[t] EXCEPT !.pc = "done", !.ret = None], by_id)
       ELSE ThreadStep(t, [threads[t] EXCEPT !.pc = "line52"], by_id)

\* lines 52-54
ConcWrite(t) ==
    /\ threads[t].pc = "line52"
    /\ LET r == insert_write(by_id, threads[t].key, threads[t].value)
       IN  ThreadStep(t, [threads[t] EXCEPT !.pc = "done", !.ret = r.ret],
                      r.by_id)

ConcNext ==
    \E t \in Threads :
        \/ ConcCall(t)
        \/ ConcKey(t)
        \/ ConcCheck(t)
        \/ ConcWrite(t)

ConcSpec == Init /\ [][ConcNext]_vars

(***************************************************************************)
(* Properties.  Each is about the last call, which op, key, value, ret and  *)
(* pre describe; by_id is the mapping that call left.                       *)
(***************************************************************************)

\* C1: for a key k that is not None and not in the store, insert(k, v)
\* returns k and lookup(k) right after the call returns v.
C1_InsertNewKey ==
    (op = "insert" /\ key # None /\ ~DictContains(pre, key))
        => (ret = key /\ lookup(by_id, key) = value)

C1_Witness ==
    /\ op = "insert"
    /\ key # None
    /\ Len(pre) > 0
    /\ ~DictContains(pre, key)
    /\ ret = key
    /\ value # None

\* C2: for a key k already in the store, insert(k, v2) returns None (the
\* conflict result) and leaves the whole mapping as it was; and no insert,
\* whatever its key argument, changes the value of a key that was present.
C2_InsertConflict ==
    /\ (op = "insert" /\ DictContains(pre, key))
            => (ret = None /\ by_id = pre)
    /\ op = "insert"
            => \A k \in keys(pre) :
                    DictContains(by_id, k) /\ lookup(by_id, k) = lookup(pre, k)

C2_Witness ==
    /\ op = "insert"
    /\ DictContains(pre, key)
    /\ lookup(pre, key) # value
    /\ ret = None

\* C3 (as claimed): insert(None, v) never returns the conflict result; the
\* key it returns was not in the store before the call and lookup on it
\* returns v.
C3_InsertNoneFresh ==
    (op = "insert" /\ key = None)
        => (ret # None /\ ~DictContains(pre, ret) /\ lookup(by_id, ret) = value)

\* C4: for a key k in the store, update(k, v2) returns v2 and lookup(k)
\* right after the call returns v2.
C4_UpdatePresent ==
    (op = "update" /\ DictContains(pre, key))
        => (ret = value /\ lookup(by_id, key) = value)

C4_Witness ==
    /\ op = "update"
    /\ DictContains(pre, key)
    /\ lookup(pre, key) # value
    /\ ret = value
    /\ lookup(by_id, key) = value

\* C5: for a key k that is not None and not in the store, update(k, v2)
\* returns None (absent), leaves the mapping as it was, and lookup(k) still
\* returns None.
C5_UpdateAbsent ==
    (op = "update" /\ key # None /\ ~DictContains(pre, key))
        => (ret = None /\ by_id = pre /\ lookup(by_id, key) = None)

C5_Witness ==
    /\ op = "update"
    /\ key # None
    /\ ~DictContains(pre, key)
    /\ value # None
    /\ Len(pre) > 0
    /\ ret = None

\* C6: update(None, v) returns None and leaves the mapping as it was, in
\* every state and for every v.
C6_UpdateNoneKey ==
    (op = "update" /\ key = None) => (ret = None /\ by_id = pre)

C6_Witness ==
    /\ op = "update"
    /\ key = None
    /\ value # None
    /\ Len(pre) > 0
    /\ ret = None

\* C7: upsert(k, v) returns a key, never None: k itself when k is not None,
\* a generated identifier otherwise; lookup on the returned key right after
\* the call returns v.
C7_UpsertAlwaysWrites ==
    op = "upsert"
        => /\ ret # None
           /\ key # None => ret = key
           /\ key = None => ret \in GeneratedIds
           /\ DictContains(by_id, ret)
           /\ lookup(by_id, ret) = value

C7_Witness ==
    /\ op = "upsert"
    /\ key # None
    /\ DictContains(pre, key)
    /\ lookup(pre, key) # value
    /\ ret = key
    /\ lookup(by_id, key) = value

\* C8: for a key k in the store with value v, remove(k) returns v, lookup(k)
\* right after the call returns None (absent) and k is not in keys().
C8_RemovePresent ==
    (op = "remove" /\ DictContains(pre, key))
        => /\ ret = DictGet(pre, key, None)
           /\ lookup(by_id, key) = None
           /\ key \notin keys(by_id)

C8_Witness ==
    /\ op = "remove"
    /\ DictContains(pre, key)
    /\ ret # None
    /\ Len(by_id) > 0

\* C9: for a key argument k that is not in the store (None included),
\* remove(k) returns None (absent) and leaves the mapping, and so the set of
\* keys, as it was.
C9_RemoveAbsent ==
    (op = "remove" /\ ~DictContains(pre, key))
        => (ret = None /\ by_id = pre /\ keys(by_id) = keys(pre))

C9_Witness ==
    /\ op = "remove"
    /\ key # None
    /\ ~DictContains(pre, key)
    /\ Len(pre) > 0
    /\ ret = None

\* C10 (as claimed): after any sequence of calls, None being a value a
\* caller may store, keys() has as many elements as values() and lookup of
\* every key in keys() is not None (absent).
C10_KeysValuesLookup ==
    /\ Cardinality(keys(by_id)) = Len(values(by_id))
    /\ \A k \in keys(by_id) : lookup(by_id, k) # None

\* C11 (as claimed): the no-value result None is returned by lookup(k) and
\* by remove(k) exactly when k is not in the mapping, and by update(k, v)
\* exactly when k is None or k is not in the mapping, whatever the values
\* stored or passed, None included.
C11_NoValueDistinguishable ==
    /\ op \in {"lookup", "remove"}
            => (ret = None <=> ~DictContains(pre, key))
    /\ op = "update"
            => (ret = None <=> (key = None \/ ~DictContains(pre, key)))

\* C12: in every step (pre is the mapping before the step, by_id the
\* mapping after it, op the call that made it), a key that enters the
\* mapping does so in an insert or an upsert, a key that stays and changes
\* its value does so in an update or an upsert, a key that leaves does so in
\* a remove; lookup, keys and values leave the mapping as it is.
C12_Lifecycle ==
    /\ \A k \in KeyArgs :
          /\ (~DictContains(pre, k) /\ DictContains(by_id, k))
                => op \in {"insert", "upsert"}
          /\ (/\ DictContains(pre, k)
              /\ DictContains(by_id, k)
              /\ DictGet(pre, k, None) # DictGet(by_id, k, None))
                => op \in {"update", "upsert"}
          /\ (DictContains(pre, k) /\ ~DictContains(by_id, k))
                => op = "remove"
    /\ op \in {"lookup", "keys", "values"} => by_id = pre

C12_Witness ==
    /\ op = "upsert"
    /\ key = None
    /\ Len(pre) > 0
    /\ ~DictContains(pre, ret)
    /\ DictContains(by_id, ret)

\* C13: a collection returned by keys() or values() keeps the contents it
\* had when the call returned, whatever insert, update, upsert and remove
\* calls are made on the store afterwards.
C13_Snapshot ==
    held.kind # "none" => Contents(held, by_id) = held.items

C13_Witness ==
    /\ held.kind = "keys"
    /\ held.items # {}
    /\ Contents(held, by_id) = held.items
    /\ keys(by_id) # held.items

\* C14: lookup(key) leaves the mapping as it was, for a key that is present,
\* absent or None; it returns None (absent) when the key is not in the
\* mapping and the value stored under it otherwise; and a lookup of the same
\* key right after a lookup, no write in between, returns the same result.
C14_LookupPureRead ==
    [][ /\ op' = "lookup"
            => /\ by_id' = pre'
               /\ ~DictContains(pre', key') => ret' = None
               /\ DictContains(pre', key')
                    => \E i \in 1..Len(pre') : pre'[i] = <<key', ret'>>
        /\ (op = "lookup" /\ op' = "lookup" /\ key' = key) => ret' = ret
      ]_vars

C14_Witness ==
    /\ op = "lookup"
    /\ DictContains(pre, key)
    /\ ret # None
    /\ Len(pre) > 1

\* C15 (as claimed): the key upsert(None, v) returns was not in the mapping
\* before the call, the mapping has exactly one more key after it, and every
\* entry that was there keeps its value.
C15_UpsertNoneFresh ==
    (op = "upsert" /\ key = None)
        => /\ ~DictContains(pre, ret)
           /\ Len(by_id) = Len(pre) + 1
           /\ \A k \in keys(pre) :
                  DictContains(by_id, k) /\ lookup(by_id, k) = lookup(pre, k)

\* C16 (as claimed): over any sequence of calls no two calls of the
\* identifier source return the same identifier.
C16_IdsNeverRepeat ==
    \A i, j \in 1..Len(issued) : i # j => issued[i] # issued[j]

\* The two concurrent callers have returned.
BothDone == \A t \in Threads : threads[t].pc = "done"

\* The two callers worked on the same key and both got it back: neither was
\* told of a conflict.
BothInserted ==
    /\ BothDone
    /\ threads[1].key = threads[2].key
    /\ threads[1].ret = threads[1].key
    /\ threads[2].ret = threads[2].key

\* C17: when two callers run insert(k, v1) and insert(k, v2) concurrently on
\* a key that is not in the store, at least one of them gets k back, and
\* when both get k back (reachable: C17_Witness) the mapping has one entry
\* for k, holding the value of one of the two calls: the other is lost.
C17_LostUpdate ==
    /\ (BothDone /\ threads[1].key = threads[2].key)
            => (threads[1].ret = threads[1].key \/ threads[2].ret = threads[2].key)
    /\ BothInserted
            => /\ Cardinality({i \in 1..Len(by_id) : by_id[i][1] = threads[1].key}) = 1
               /\ Len(by_id) = 1
               /\ \E t \in Threads : by_id[1] = <<threads[t].key, threads[t].value>>

C17_Witness ==
    /\ BothInserted
    /\ threads[1].value # threads[2].value
    /\ threads[1].value # None
    /\ threads[2].value # None
    /\ Len(by_id) = 1

\* The key a keyed write works on: its key argument, or the key it returned
\* when the argument was None.
TargetKey == IF key = None THEN ret ELSE key

\* C18: insert, update, upsert and remove change the entry of one key at
\* most, the target key; every other key is in the mapping after the call
\* exactly if it was before, with the same value.
C18_Frame ==
    op \in {"insert", "update", "upsert", "remove"}
        => \A j \in KeyArgs \cup keys(pre) \cup keys(by_id) :
              j # TargetKey
                => /\ DictContains(by_id, j) <=> DictContains(pre, j)
                   /\ DictGet(by_id, j, None) = DictGet(pre, j, None)

C18_Witness ==
    /\ op \in {"upsert", "remove"}
    /\ Len(pre) > 1
    /\ by_id # pre
    /\ \E j \in keys(pre) : j # TargetKey /\ DictGet(pre, j, None) # None

\* C19: None is never a key of the mapping, whatever calls were made and
\* whatever their key arguments (the identifier source returns a string).
C19_NoneNeverAKey ==
    /\ ~DictContains(by_id, None)
    /\ None \notin keys(by_id)

C19_Witness ==
    /\ op = "insert"
    /\ key = None
    /\ ret \in GeneratedIds
    /\ DictContains(by_id, ret)
    /\ ~DictContains(by_id, None)

====
